---- MODULE Spec2Model ----
(***************************************************************************)
(* thehelp-cluster: the shutdown coordinator (Graceful, src/server/        *)
(* index.js lines 28-290), the connection drainer (GracefulExpress,        *)
(* src/server/graceful_express.js lines 392-763) and the worker supervisor *)
(* (Master, src/server/master.js lines 6-216), modelled as one state       *)
(* machine of a single node process.                                       *)
(*                                                                         *)
(* Every handler runs to completion (node's event loop), so one action is  *)
(* one handler with every call it makes.  The synchronous call chains      *)
(* (shutdown -> _sendError -> emit -> listeners -> _exit -> _check ...)    *)
(* are operators on the bundle S = [g, x, n, o, m] of the variables.       *)
(***************************************************************************)
EXTENDS Integers, Sequences, FiniteSets, TLC

VARIABLES
  graceful,   \* the Graceful instance (fields of `this` in index.js)
  express,    \* the GracefulExpress instance (fields of `this`)
  node,       \* the node runtime: clock, server, sockets, responses, messenger
  obs,        \* history of what the handlers did (calls, log lines, exit)
  master,     \* the Master instance, the cluster module and its workers
  startup     \* the Startup instance and its messenger

vars == <<graceful, express, node, obs, master, startup>>

(***************************************************************************)
(* Bounds                                                                  *)
(***************************************************************************)
MaxPollInterval == 2   \* pollInterval is drawn from 1..MaxPollInterval
MaxTimeout == 3        \* the timeout option, in clock ticks
MaxExitCode == 2       \* err.exitCode is 0 or MaxExitCode
MaxUserChecks == 2     \* user checks registered with addCheck
MaxUserListeners == 2  \* user listeners registered with on('shutdown')
MaxRequests == 2       \* requests the middleware sees in one run
MaxDepth == 2          \* nesting of shutdown() calls made from listeners
MaxRuns == 2           \* runs of one completion handler that are counted
MaxCalls == 3          \* obs.calls counts shutdown() calls up to MaxCalls
MaxSpinTimeout == 2    \* the spinTimeout option, in clock ticks
MaxDelayStart == 2     \* the delayStart option, in clock ticks
MaxKillTimeout == 2    \* the killTimeout option, in clock ticks
MaxMasterPoll == 1     \* the supervisor's pollInterval option, in clock ticks
MaxWorkers == 2        \* the numberWorkers option
MaxForks == 4          \* cluster.fork() calls in one run
MaxStops == 1          \* stop(cb) calls in one run
MaxErrors == 2         \* top-level domain errors in one run

Sockets == {"s1", "s2"}

(***************************************************************************)
(* Values                                                                  *)
(***************************************************************************)
\* `undefined`: shutdown() called without an error.
NoError == [isError |-> FALSE, hasExitCode |-> FALSE, exitCode |-> 0]

\* An error object, with or without an own exitCode field.
ErrorWith(c) == [isError |-> TRUE, hasExitCode |-> TRUE, exitCode |-> c]
PlainError == [isError |-> TRUE, hasExitCode |-> FALSE, exitCode |-> 0]

Errors == {PlainError} \cup {ErrorWith(c) : c \in {0, MaxExitCode}}
ErrVals == {NoError} \cup Errors

\* The check functions a program can register.  "areWeSending" is the one
\* the constructor adds, "express" is GracefulExpress._isReadyForShutdown;
\* the others are user functions: "flaky" returns true or false as it
\* likes, "stuck" returns false at every call, "thrower" throws at every call.
UserChecks == {"flaky", "stuck", "thrower"}

\* The 'shutdown' listeners a program can register.  "express" is
\* GracefulExpress._onShutdown; "quiet" returns normally, "thrower" throws,
\* "reenter" calls graceful.shutdown(err) from inside the listener.
UserListeners == {"quiet", "thrower", "reenter"}

\* this.timeout holds the configured milliseconds, then the Timer handle
\* (kept here as its deadline), then null.
Ms(v) == [tag |-> "ms", v |-> v]
Timer(at) == [tag |-> "timer", v |-> at]
Null == [tag |-> "null", v |-> 0]

Bundle ==
  [g |-> graceful, x |-> express, n |-> node, o |-> obs, m |-> master,
   s |-> startup]

Append1(s, e) == s \o <<e>>
RemoveAt(s, i) == SubSeq(s, 1, i - 1) \o SubSeq(s, i + 1, Len(s))
Range(s) == {s[i] : i \in 1..Len(s)}

(***************************************************************************)
(* Graceful: readiness checks                                              *)
(***************************************************************************)
\* Mutant of areWeSending: the gate is always open.
areWeSending_open(S) == TRUE

\* The check the constructor registers: true while no messenger call is in
\* flight.
areWeSending(S) == S.g._sending = FALSE

\* Mutant of _isReadyForShutdown: ready whenever no server is held or no
\* response is tracked.
Express_isReadyForShutdown_lax(S) ==
  IF S.x.inProcessTest THEN TRUE
  ELSE ~S.x.server \/ Len(S.x._responses) = 0 \/ S.x._serverClosed

\* GracefulExpress._isReadyForShutdown, the check the drainer registers.
Express_isReadyForShutdown(S) ==
  IF S.x.inProcessTest THEN TRUE
  ELSE IF ~S.x.server THEN Len(S.x._responses) = 0
  ELSE S.x._serverClosed

\* Object.keys(this._cluster.workers)
ClusterWorkers(m) ==
  {pid \in 1..Len(m.w) : m.w[pid].st \in {"live", "disc"}}

\* Master._isReadyForShutdown, the check the supervisor registers
\* (_workersActive is undefined until _onShutdown sets it).
Master_isReadyForShutdown(S) == ~S.m._workersActive

\* What a program may pass to addCheck instead of a function.
NonFunctions == {"undefined", "non-function"}

\* Mutant of addCheck: whatever is passed is pushed.
Graceful_addCheck_any(S, check) == [S EXCEPT !.g._checks = Append1(@, check)]

\* Graceful.addCheck(check)
Graceful_addCheck(S, check) ==
  IF check \in NonFunctions
    THEN [S EXCEPT !.o.addThrew = TRUE]
    ELSE [S EXCEPT !.g._checks = Append1(@, check)]

\* What one call of check function c does: "true", "false" (a falsy return)
\* or "throw".  fc is what the flaky user check returns at this evaluation.
CallCheck(S, c, fc) ==
  CASE c = "areWeSending" -> IF areWeSending(S) THEN "true" ELSE "false"
    [] c = "express" -> IF Express_isReadyForShutdown(S) THEN "true" ELSE "false"
    [] c = "master" -> IF Master_isReadyForShutdown(S) THEN "true" ELSE "false"
    [] c = "flaky" -> IF fc THEN "true" ELSE "false"
    [] c = "stuck" -> "false"
    [] c = "thrower" -> "throw"
    [] OTHER -> "throw"   \* calling what is not a function is a TypeError

\* The loop of _check from index i on: a falsy return ends it with false; a
\* throw is caught and logged and the loop goes on to the next check.
RECURSIVE CheckLoop(_, _, _)
CheckLoop(S, i, fc) ==
  IF i > Len(S.g._checks) THEN TRUE
  ELSE IF CallCheck(S, S.g._checks[i], fc) = "false" THEN FALSE
  ELSE CheckLoop(S, i + 1, fc)

\* _check: true if the list is empty, else the result of the loop.
_check(S, fc) ==
  IF Len(S.g._checks) = 0 THEN TRUE ELSE CheckLoop(S, 1, fc)

\* What the calls made by one _check evaluation returned, in call order (the
\* loop stops calling after the first falsy return).
RECURSIVE EvalTrace(_, _, _)
EvalTrace(S, i, fc) ==
  IF i > Len(S.g._checks) THEN <<>>
  ELSE LET r == CallCheck(S, S.g._checks[i], fc)
       IN IF r = "false" THEN <<r>> ELSE <<r>> \o EvalTrace(S, i + 1, fc)

\* Every registered check was called and returned true.
AllTrue(S, trace) ==
  /\ Len(trace) = Len(S.g._checks)
  /\ \A i \in 1..Len(trace) : trace[i] = "true"

(***************************************************************************)
(* Graceful: the exit sequence                                             *)
(***************************************************************************)
Truthy(t) == t.tag = "timer" \/ (t.tag = "ms" /\ t.v # 0)

\* setTimeout's delay argument: this.timeout as a number.
Delay(t) == IF t.tag = "ms" /\ t.v >= 1 THEN t.v ELSE 1

\* Mutant of _clearTimers: the poll interval is left running.
_clearTimers_timeoutOnly(S) ==
  [S EXCEPT !.g.timeout = IF Truthy(@) THEN Null ELSE @]

\* Mutant of _clearTimers: the force timer is left running.
_clearTimers_intervalOnly(S) ==
  [S EXCEPT !.g.interval = IF Truthy(@) THEN Null ELSE @]

_clearTimers(S) ==
  [S EXCEPT !.g.interval = IF Truthy(@) THEN Null ELSE @,
            !.g.timeout = IF Truthy(@) THEN Null ELSE @]

\* _finalLog: one log line of the given level, then setTimeout(_die, 0).
_finalLog(S, type) ==
  [S EXCEPT !.o.finalLogs = @ + 1,
            !.o.exitPath = IF type = "info" THEN "ready" ELSE "forced",
            !.o.decidedAt = S.n.clock,
            !.o.decidedWith = Range(S.g._checks),
            !.o.workersAtDecision = ClusterWorkers(S.m),
            !.o.inFlightAtDecision =
               {r \in 1..Len(S.n.res) : S.n.res[r].outcome \in {"passed", "errored"}
                                         /\ ~S.n.res[r].done},
            !.g.dieTimers = @ + 1]

\* _exit: exit if _check() passes, else arm the poll interval and the force
\* timer unless the interval is already running.
_exit(S, fc) ==
  LET S1 == [S EXCEPT !.o.lastEval = EvalTrace(S, 1, fc),
                      !.o.lastResult = _check(S, fc),
                      !.o.passedOnce = @ \/ AllTrue(S, EvalTrace(S, 1, fc)),
                      !.o.evals = IF @ < 2 THEN @ + 1 ELSE @]
  IN IF _check(S, fc)
       THEN _finalLog(_clearTimers(S1), "info")
     ELSE IF ~Truthy(S.g.interval)
       THEN [S1 EXCEPT !.g.interval = Timer(S.n.clock + S.g.pollInterval),
                       !.g.timeout = Timer(S.n.clock + Delay(S.g.timeout)),
                       !.o.armedAt = S.n.clock,
                       !.o.armedFor = Delay(S.g.timeout)]
     ELSE S1

\* forceKill, the callback of the force timer.
forceKill(S) == _finalLog(_clearTimers(S), "warn")

\* _die: process.exit(code).
ExitCodeOf(error) ==
  IF error.isError
    THEN (IF error.hasExitCode /\ error.exitCode # 0 THEN error.exitCode ELSE 1)
    ELSE 0

_die(S) ==
  [S EXCEPT !.n.exited = TRUE,
            !.n.exitCode = ExitCodeOf(S.g.error),
            !.g.dieTimers = 0]

(***************************************************************************)
(* Graceful: shutdown                                                      *)
(***************************************************************************)
\* _sendError: with an error, set _sending and call the messenger; a
\* messenger of mode "sync" runs the completion callback before it returns.
_sendError(S, err) ==
  IF err.isError
    THEN [S EXCEPT !.g._sending = (S.n.messenger # "sync"),
                   !.n.inFlight = (S.n.messenger = "async"),
                   !.o.messengerCalls = @ + 1,
                   !.o.sendThrew = (S.n.messenger = "throws")]
    ELSE S

(***************************************************************************)
(* GracefulExpress: socket and response tracking                           *)
(***************************************************************************)
\* Index of the first occurrence of e in sequence q, 0 if there is none.
RECURSIVE IndexFrom(_, _, _)
IndexFrom(q, e, i) ==
  IF i > Len(q) THEN 0
  ELSE IF q[i] = e THEN i
  ELSE IndexFrom(q, e, i + 1)

RemoveFirst(q, e) ==
  LET i == IndexFrom(q, e, 1) IN IF i = 0 THEN q ELSE RemoveAt(q, i)

addActiveSocket(S, socket) ==
  [S EXCEPT !.x._activeSockets = Append1(@, socket)]

\* Mutant of removeActiveSocket: every occurrence is removed.
removeActiveSocket_all(S, socket) ==
  [S EXCEPT !.x._activeSockets = SelectSeq(@, LAMBDA e : e # socket)]

removeActiveSocket(S, socket) ==
  [S EXCEPT !.x._activeSockets = RemoveFirst(@, socket)]

_addResponse(S, r) == [S EXCEPT !.x._responses = Append1(@, r)]

_removeResponse(S, r) == [S EXCEPT !.x._responses = RemoveFirst(@, r)]

\* Mutant of _addSocket: the socket is not recorded.
_addSocket_untracked(S, socket) ==
  [S EXCEPT !.n.closeListeners[socket] = @ + 1]

\* Mutant of _addSocket: no look for the socket in the list.
_addSocket_always(S, socket) ==
  [S EXCEPT !.x._sockets = Append1(@, socket),
            !.n.closeListeners[socket] = @ + 1]

\* _addSocket(socket); n.closeListeners counts the 'close' listeners the
\* drainer has put on each socket.

_addSocket(S, socket) ==
  IF IndexFrom(S.x._sockets, socket, 1) # 0 THEN S
  ELSE [S EXCEPT !.x._sockets = Append1(@, socket),
                 !.n.closeListeners[socket] = @ + 1]

_removeSocket(S, socket) == [S EXCEPT !.x._sockets = RemoveFirst(@, socket)]

_preventKeepAlive(S, r) == [S EXCEPT !.n.res[r].shouldKeepAlive = FALSE]

RECURSIVE CloseConnFrom(_, _)
CloseConnFrom(S, i) ==
  IF i > Len(S.x._responses) THEN S
  ELSE CloseConnFrom(_preventKeepAlive(S, S.x._responses[i]), i + 1)

\* Mutant of _closeConnAfterResponses: the responses are left as they are.
_closeConnAfterResponses_none(S) == S

_closeConnAfterResponses(S) == CloseConnFrom(S, 1)

\* Mutant of the membership test: every socket counts as inactive.
InactiveTest_all(S, socket) == TRUE

InactiveTest(S, socket) == IndexFrom(S.x._activeSockets, socket, 1) = 0

_getInactiveSockets(S) ==
  SelectSeq(S.x._sockets, LAMBDA socket : InactiveTest(S, socket))

\* destroySoon() on every inactive socket.
_closeInactiveSockets(S) ==
  [S EXCEPT !.n.destroyed = @ \cup Range(_getInactiveSockets(S))]

\* Mutant of _startSocketReaper: no interval is started.
_startSocketReaper_none(S) == S

_startSocketReaper(S) == [S EXCEPT !.x.interval = TRUE]

\* server.close(): stops listening; throws (caught by the caller) when the
\* server is not listening.
ServerClose(S) ==
  IF S.n.listening
    THEN [S EXCEPT !.n.listening = FALSE, !.n.closeCalled = TRUE]
    ELSE S

\* _onShutdown, the drainer's 'shutdown' listener.
Express_onShutdown(S) ==
  LET S1 == [S EXCEPT !.x.shuttingDown = TRUE]
      S2 == IF S1.x.server THEN ServerClose(S1) ELSE S1
  IN _startSocketReaper(_closeInactiveSockets(_closeConnAfterResponses(S2)))

\* Mutant of _onClose: the receipt of the event is not recorded.
_onClose_unrecorded(S) == [S EXCEPT !.x.interval = FALSE]

\* _onClose, the handler of the server's 'close' event.
_onClose(S) ==
  [S EXCEPT !.x.interval = FALSE, !.x._serverClosed = TRUE]

\* The completion handler of response r, the function given to util.once.
\* n.res[r].runs counts its runs, up to MaxRuns.
finishBody(S, r) ==
  _removeResponse(
    removeActiveSocket(
      [S EXCEPT !.n.res[r].runs = IF @ < MaxRuns THEN @ + 1 ELSE @],
      S.n.res[r].socket), r)

\* Mutant of finish: the handler is bound without util.once.
finish_everyTime(S, r) == finishBody(S, r)

\* The util.once wrapper around the completion handler of response r.
finish(S, r) ==
  IF S.n.res[r].called THEN S
  ELSE finishBody([S EXCEPT !.n.res[r].called = TRUE], r)

\* A response event (finish, close or end) on r: runs the handler if the
\* middleware bound one.
EmitResEvent(S, r) ==
  LET S1 == [S EXCEPT !.n.res[r].done = TRUE]
  IN IF S.n.res[r].bound THEN finish(S1, r) ELSE S1

\* next() or next(err) is called for response r; outcome tells how the
\* request went on: "passed" to the application, "rejected" with the 503
\* error, "errored" with the error the request domain caught.
CallNext(S, r, outcome) ==
  [S EXCEPT !.n.res[r].outcome = outcome, !.n.res[r].nexts = @ + 1]

\* d.run(next): next runs inside a domain whose 'error' handler is _onError.
RunInDomain(S, r) == CallNext([S EXCEPT !.n.res[r].domain = TRUE], r, "passed")

\* Mutant of middleware: no backstop, every request runs in a domain.
middleware_noBackstop(S, r) ==
  IF S.x.inProcessTest THEN CallNext(S, r, "passed")
  ELSE LET S1 == _addResponse(addActiveSocket(S, S.n.res[r].socket), r)
           S2 == [S1 EXCEPT !.n.res[r].bound = TRUE]
       IN RunInDomain(S2, r)

\* Mutant of middleware: keep-alive is disabled on every response.
middleware_closeAlways(S, r) ==
  IF S.x.inProcessTest THEN CallNext(S, r, "passed")
  ELSE LET S1 == _addResponse(addActiveSocket(S, S.n.res[r].socket), r)
           S2 == _preventKeepAlive([S1 EXCEPT !.n.res[r].bound = TRUE], r)
       IN IF S2.x.shuttingDown
            THEN CallNext(S2, r, "rejected")
            ELSE RunInDomain(S2, r)

\* Mutant of middleware: in-process-test mode is treated like any other.
middleware_testTracked(S, r) ==
  LET S1 == _addResponse(addActiveSocket(S, S.n.res[r].socket), r)
      S2 == [S1 EXCEPT !.n.res[r].bound = TRUE]
  IN IF S2.x.shuttingDown
       THEN CallNext(_preventKeepAlive(S2, r), r, "rejected")
       ELSE RunInDomain(S2, r)

\* middleware(req, res, next) for the new response r (the last of n.res).
middleware(S, r) ==
  IF S.x.inProcessTest THEN CallNext(S, r, "passed")
  ELSE LET S1 == _addResponse(addActiveSocket(S, S.n.res[r].socket), r)
           S2 == [S1 EXCEPT !.n.res[r].bound = TRUE]
       IN IF S2.x.shuttingDown
            THEN CallNext(_preventKeepAlive(S2, r), r, "rejected")
            ELSE RunInDomain(S2, r)

(***************************************************************************)
(* Master: the worker supervisor                                           *)
(*                                                                         *)
(* master.w[pid] is the pid-th worker forked: st is "live" while it        *)
(* runs, "disc" once its 'disconnect' was emitted while it is     *)
(* still listed in cluster.workers (the cluster module removes a worker    *)
(* when it has both disconnected and exited), and "dead" after; tracked    *)
(* says pid is a key of this._workers, age is now - start, counted up to   *)
(* spinTimeout, and via names the caller of the _startWorker that forked   *)
(* it.  Timers hold the ticks left until they fire.                        *)
(***************************************************************************)
Off == [on |-> FALSE, left |-> 0]
In(d) == [on |-> TRUE, left |-> d]

Pids == 1..MaxForks

\* _startWorker: cluster.fork() and the entry of this._workers.
_startWorker(S, via) ==
  [S EXCEPT !.m.forks = @ + 1,
            !.m.w = Append1(@, [st |-> "live", tracked |-> TRUE, age |-> 0,
                                via |-> via])]

RECURSIVE StartFrom(_, _)
StartFrom(S, i) ==
  IF i >= S.m.numberWorkers THEN S ELSE StartFrom(_startWorker(S, "start"), i + 1)

\* start()
start(S) == StartFrom([S EXCEPT !.m.started = TRUE], 0)

\* Mutant of _sendToAll: the signal goes to no worker.
_sendToAll_none(S, signal) == S

\* _sendToAll(signal): process.kill for the workers of cluster.workers that
\* are keys of this._workers.
_sendToAll(S, signal) ==
  LET to == {pid \in ClusterWorkers(S.m) : S.m.w[pid].tracked}
  IN IF signal = "SIGTERM"
       THEN [S EXCEPT !.m.sigterm = @ \cup to]
       ELSE [S EXCEPT !.m.sigint = @ \cup to]

\* The callbacks stop() is called with: none, the program's, or the one
\* _onShutdown passes.
Callbacks == {"none", "user", "own"}

\* util.verifyCb(cb): a missing callback is refused with a throw.
verifyCb(cb) == cb # "none"

\* Mutant of stop: the callback is not verified.
stop_unverified(S, cb) ==
  LET S1 == _sendToAll([S EXCEPT !.m.shuttingDown = TRUE], "SIGTERM")
  IN [S1 EXCEPT !.m.stops =
        Append1(@, [timeout |-> In(S.m.killTimeout),
                    interval |-> In(S.m.pollInterval),
                    age |-> 0,
                    cbs |-> 0,
                    cb |-> cb])]

\* stop(cb): the timers and the callback of the call are a record of
\* master.stops; age counts the ticks since the call, up to killTimeout.
\* Without a callback the call throws before it does anything.
stop(S, cb) ==
  IF ~verifyCb(cb) THEN [S EXCEPT !.o.stopThrew = TRUE]
  ELSE LET S1 == _sendToAll([S EXCEPT !.m.shuttingDown = TRUE], "SIGTERM")
       IN [S1 EXCEPT !.m.stops =
             Append1(@, [timeout |-> In(S.m.killTimeout),
                         interval |-> In(S.m.pollInterval),
                         age |-> 0,
                         cbs |-> 0,
                         cb |-> cb])]

\* forceKill of the k-th stop call.
stop_forceKill(S, k) ==
  _sendToAll([S EXCEPT !.m.stops[k].timeout = Off], "SIGINT")

\* cb() of the k-th stop call.
CallBack(S, k) ==
  [S EXCEPT !.m.stops[k].cbs = @ + 1,
            !.m._workersActive = IF S.m.stops[k].cb = "own" THEN FALSE ELSE @]

\* Mutant of checkAndReturn: the force timer is left armed.
checkAndReturn_keepTimeout(S, k) ==
  IF ClusterWorkers(S.m) = {}
    THEN CallBack([S EXCEPT !.m.stops[k].interval = Off], k)
    ELSE [S EXCEPT !.m.stops[k].interval = In(S.m.pollInterval)]

\* checkAndReturn of the k-th stop call, the callback of its setInterval.
checkAndReturn(S, k) ==
  IF ClusterWorkers(S.m) = {}
    THEN CallBack([S EXCEPT !.m.stops[k].interval = Off,
                            !.m.stops[k].timeout = Off], k)
    ELSE [S EXCEPT !.m.stops[k].interval = In(S.m.pollInterval)]

\* Mutant of setGraceful: the coordinator's timeout is left as it was.
Master_setGraceful_keepTimeout(S) ==
  [S EXCEPT !.m.graceful = TRUE,
            !.g.listeners = Append1(@, "master"),
            !.g._checks = Append1(@, "master")]

\* Master.setGraceful(graceful)
Master_setGraceful(S) ==
  [S EXCEPT !.m.graceful = TRUE,
            !.g.timeout = Ms(S.m.killTimeout + S.m.pollInterval * 2),
            !.g.listeners = Append1(@, "master"),
            !.g._checks = Append1(@, "master")]

\* Master._onShutdown, the supervisor's 'shutdown' listener.
Master_onShutdown(S) == stop([S EXCEPT !.m._workersActive = TRUE], "own")

\* Mutant of _restartWorker: the replacement is always forked at once.
_restartWorker_atOnce(S, pid) ==
  LET S1 == [S EXCEPT !.m.w[pid].tracked = FALSE, !.m.w[pid].age = 0]
  IN IF ~S.m.shuttingDown THEN _startWorker(S1, "restart") ELSE S1

\* Mutant of _restartWorker: shuttingDown is not looked at.
_restartWorker_unguarded(S, pid) ==
  LET data == S.m.w[pid].tracked
      delta == IF data THEN S.m.w[pid].age ELSE 0
      S1 == [S EXCEPT !.m.w[pid].tracked = FALSE, !.m.w[pid].age = 0]
  IN IF data /\ delta < S.m.spinTimeout
       THEN [S1 EXCEPT !.m.pending =
               Append1(@, [left |-> S.m.delayStart, waited |-> 0])]
       ELSE _startWorker(S1, "restart")

\* Mutant of _restartWorker: the death of a worker also marks the
\* coordinator as shutting down, as a shutdown() call would.
_restartWorker_escalates(S, pid) ==
  LET data == S.m.w[pid].tracked
      delta == IF data THEN S.m.w[pid].age ELSE 0
      S1 == [S EXCEPT !.m.w[pid].tracked = FALSE, !.m.w[pid].age = 0,
                      !.g.shuttingDown = TRUE,
                      !.o.calls = IF @ < MaxCalls THEN @ + 1 ELSE @]
  IN IF ~S.m.shuttingDown
       THEN IF data /\ delta < S.m.spinTimeout
              THEN [S1 EXCEPT !.m.pending =
                      Append1(@, [left |-> S.m.delayStart, waited |-> 0])]
              ELSE _startWorker(S1, "restart")
       ELSE S1

\* Mutant of _restartWorker: a worker that died within spinTimeout gets no
\* replacement.
_restartWorker_noDelayed(S, pid) ==
  LET data == S.m.w[pid].tracked
      delta == IF data THEN S.m.w[pid].age ELSE 0
      S1 == [S EXCEPT !.m.w[pid].tracked = FALSE, !.m.w[pid].age = 0]
  IN IF ~S.m.shuttingDown
       THEN IF data /\ delta < S.m.spinTimeout
              THEN S1
              ELSE _startWorker(S1, "restart")
       ELSE S1

\* _restartWorker(worker), the listener of the cluster's 'disconnect'.
_restartWorker(S, pid) ==
  LET data == S.m.w[pid].tracked
      delta == IF data THEN S.m.w[pid].age ELSE 0
      S1 == [S EXCEPT !.m.w[pid].tracked = FALSE, !.m.w[pid].age = 0]
  IN IF ~S.m.shuttingDown
       THEN IF data /\ delta < S.m.spinTimeout
              THEN [S1 EXCEPT !.m.pending =
                      Append1(@, [left |-> S.m.delayStart, waited |-> 0])]
              ELSE _startWorker(S1, "restart")
       ELSE S1

(***************************************************************************)
(* Graceful: shutdown and the 'shutdown' event                             *)
(***************************************************************************)
\* The error the "reenter" listener passes to its nested shutdown() call.
ReenterError == ErrorWith(MaxExitCode)

\* Bookkeeping: one more call of shutdown().
Called(S) == [S EXCEPT !.o.calls = IF @ < MaxCalls THEN @ + 1 ELSE @]

RECURSIVE shutdown(_, _, _, _)
RECURSIVE EmitFrom(_, _, _, _)

\* emit('shutdown') from listener i on: EventEmitter calls the listeners in
\* registration order and a throwing listener ends the emit.  The result
\* carries o.emitThrew when the emit threw.
EmitFrom(S, i, d, fc) ==
  IF i > Len(S.g.listeners) THEN S
  ELSE LET l == S.g.listeners[i]
           S1 == [S EXCEPT !.o.invoked = Append1(@, l)]
       IN CASE l = "quiet" -> EmitFrom(S1, i + 1, d, fc)
            [] l = "thrower" -> [S1 EXCEPT !.o.emitThrew = TRUE]
            [] l = "express" -> EmitFrom(Express_onShutdown(S1), i + 1, d, fc)
            [] l = "master" -> EmitFrom(Master_onShutdown(S1), i + 1, d, fc)
            [] l = "reenter" ->
                 IF d >= MaxDepth THEN [S1 EXCEPT !.o.emitThrew = TRUE]
                 ELSE EmitFrom(shutdown(S1, ReenterError, d + 1, fc), i + 1, d, fc)

\* Mutant of shutdown: no shuttingDown guard, every call runs the sequence.
RECURSIVE shutdown_unguarded(_, _, _, _)
shutdown_unguarded(S, err, d, fc) ==
  LET S1 == [Called(S) EXCEPT
                   !.g.shuttingDown = TRUE,
                   !.g.error = err,
                   !.o.flips = IF S.g.shuttingDown THEN @ ELSE @ + 1,
                   !.o.registered = Range(S.g._checks),
                   !.o.atShutdown = Len(S.g.listeners)]
      S2 == _sendError(S1, err)
      S3 == EmitFrom([S2 EXCEPT !.o.emits = IF @ < MaxCalls THEN @ + 1 ELSE @],
                     1, d, fc)
      S4 == [S3 EXCEPT !.o.emitThrew = FALSE,
                       !.o.caught = @ \/ S3.o.emitThrew]
  IN _exit([S4 EXCEPT !.o.exitStarts = IF @ < MaxCalls THEN @ + 1 ELSE @], fc)

\* Mutant of shutdown: a later call cancels the timers and starts the exit
\* sequence again.
RECURSIVE shutdown_restart(_, _, _, _)
shutdown_restart(S, err, d, fc) ==
  IF ~S.g.shuttingDown
    THEN LET S1 == [Called(S) EXCEPT
                             !.g.shuttingDown = TRUE,
                             !.g.error = err,
                             !.o.flips = @ + 1,
                             !.o.registered = Range(S.g._checks),
                             !.o.atShutdown = Len(S.g.listeners)]
             S2 == _sendError(S1, err)
             S3 == EmitFrom([S2 EXCEPT !.o.emits = @ + 1], 1, d, fc)
             S4 == [S3 EXCEPT !.o.emitThrew = FALSE,
                              !.o.caught = @ \/ S3.o.emitThrew]
         IN _exit([S4 EXCEPT !.o.exitStarts = @ + 1], fc)
    ELSE IF S.g.dieTimers > 0 THEN Called(S)
    ELSE _exit([_clearTimers(Called(S)) EXCEPT
                  !.o.exitStarts = IF @ < MaxCalls THEN @ + 1 ELSE @], fc)

\* Mutant of shutdown: a later call with an error records and sends it.
shutdown_lastError(S, err, d, fc) ==
  IF ~S.g.shuttingDown
    THEN LET S1 == [Called(S) EXCEPT
                             !.g.shuttingDown = TRUE,
                             !.g.error = err,
                             !.o.flips = @ + 1,
                             !.o.registered = Range(S.g._checks),
                             !.o.atShutdown = Len(S.g.listeners)]
             S2 == _sendError(S1, err)
             S3 == EmitFrom([S2 EXCEPT !.o.emits = @ + 1], 1, d, fc)
             S4 == [S3 EXCEPT !.o.emitThrew = FALSE,
                              !.o.caught = @ \/ S3.o.emitThrew]
         IN _exit([S4 EXCEPT !.o.exitStarts = @ + 1], fc)
    ELSE IF err.isError
      THEN _sendError([Called(S) EXCEPT !.g.error = err], err)
    ELSE Called(S)

\* shutdown(err, info); d is the nesting depth of the call.
shutdown(S, err, d, fc) ==
  IF ~S.g.shuttingDown
    THEN LET S1 == [Called(S) EXCEPT
                             !.g.shuttingDown = TRUE,
                             !.g.error = err,
                             !.o.flips = @ + 1,
                             !.o.registered = Range(S.g._checks),
                             !.o.atShutdown = Len(S.g.listeners)]
             S2 == _sendError(S1, err)
             S3 == EmitFrom([S2 EXCEPT !.o.emits = @ + 1], 1, d, fc)
             \* try/catch: a throw of the emit is logged and swallowed
             S4 == [S3 EXCEPT !.o.emitThrew = FALSE,
                              !.o.caught = @ \/ S3.o.emitThrew]
         IN \* a throw of the messenger leaves shutdown() through _sendError
            IF S2.o.sendThrew THEN S2
            ELSE _exit([S4 EXCEPT !.o.exitStarts = @ + 1], fc)
    ELSE Called(S)

\* Mutant of _onError: the coordinator is not told.
_onError_silent(S, r, err, fc) == CallNext(_preventKeepAlive(S, r), r, "errored")

\* _onError, the handler of the request domain's 'error' event.
_onError(S, r, err, fc) ==
  LET S1 == _preventKeepAlive(S, r)
      S2 == IF S1.x.graceful THEN shutdown(S1, err, 0, fc) ELSE S1
  IN CallNext(S2, r, "errored")

(***************************************************************************)
(* Startup: the top-level domain                                           *)
(***************************************************************************)
\* process.kill(process.pid, 'SIGTERM') in a process without a coordinator:
\* nothing handles the signal and the process is terminated by it.
Startup_kill(S) == [S EXCEPT !.s.kills = @ + 1, !.n.exited = TRUE]

\* this.messenger(err, null, cb): a synchronous messenger runs the callback
\* before it returns.
Startup_messenger(S) ==
  LET S1 == [S EXCEPT !.s.messengerCalls = @ + 1]
  IN IF S.n.messenger = "sync"
       THEN Startup_kill(S1)
       ELSE [S1 EXCEPT !.s.inFlight = @ + 1]

\* Mutant of Startup._onError: the messenger is called in both cases.
Startup_onError_both(S, err, fc) ==
  LET S1 == [S EXCEPT !.s.errors = @ + 1]
  IN IF S.s.graceful
       THEN Startup_messenger(shutdown(S1, err, 0, fc))
       ELSE Startup_messenger(S1)

\* Startup._onError, the handler of the top-level domain's 'error' event.
Startup_onError(S, err, fc) ==
  LET S1 == [S EXCEPT !.s.errors = @ + 1]
  IN IF S.s.graceful
       THEN shutdown(S1, err, 0, fc)
       ELSE Startup_messenger(S1)

(***************************************************************************)
(* Initial state: after new Graceful(options) and new GracefulExpress(),   *)
(* before the drainer is linked to the coordinator.                        *)
(***************************************************************************)
InitGraceful(p, t) ==
  graceful = [shuttingDown |-> FALSE,
              error |-> NoError,
              _checks |-> <<"areWeSending">>,
              _sending |-> FALSE,
              pollInterval |-> p,
              timeout |-> Ms(t),
              interval |-> Null,
              listeners |-> <<>>,
              dieTimers |-> 0]

InitExpress(test, srv) ==
  express = [server |-> srv,
             graceful |-> FALSE,
             inProcessTest |-> test,
             shuttingDown |-> FALSE,
             _serverClosed |-> FALSE,
             _responses |-> <<>>,
             _sockets |-> <<>>,
             _activeSockets |-> <<>>,
             interval |-> FALSE]

InitNode(m) ==
  node = [clock |-> 0,
          messenger |-> m,
          inFlight |-> FALSE,
          listening |-> TRUE,
          closeCalled |-> FALSE,
          closeEmitted |-> FALSE,
          conns |-> {},
          destroyed |-> {},
          closeListeners |-> [socket \in Sockets |-> 0],
          res |-> <<>>,
          exited |-> FALSE,
          exitCode |-> 0]

InitObs ==
  obs = [messengerCalls |-> 0,
         emits |-> 0,
         invoked |-> <<>>,
         emitThrew |-> FALSE,
         caught |-> FALSE,
         exitStarts |-> 0,
         flips |-> 0,
         registered |-> {},
         atShutdown |-> 0,
         lastEval |-> <<>>,
         evals |-> 0,
         finalLogs |-> 0,
         exitPath |-> "none",
         decidedAt |-> 0,
         armedAt |-> 0,
         armedFor |-> 0,
         inFlightAtDecision |-> {},
         decidedWith |-> {},
         workersAtDecision |-> {},
         passedOnce |-> FALSE,
         lastResult |-> FALSE,
         calls |-> 0,
         repeated |-> FALSE,
         sendThrew |-> FALSE,
         readded |-> FALSE,
         badAdd |-> FALSE,
         addThrew |-> FALSE,
         bareStop |-> FALSE,
         stopThrew |-> FALSE]

InitMaster ==
  master = [shuttingDown |-> FALSE,
            started |-> FALSE,
            graceful |-> FALSE,
            _workersActive |-> FALSE,
            spinTimeout |-> MaxSpinTimeout,
            delayStart |-> MaxDelayStart,
            pollInterval |-> MaxMasterPoll,
            killTimeout |-> MaxKillTimeout,
            numberWorkers |-> MaxWorkers,
            w |-> <<>>,
            forks |-> 0,
            pending |-> <<>>,
            stops |-> <<>>,
            sigterm |-> {},
            sigint |-> {}]

\* new Startup(options): graceful says whether a coordinator was given or
\* found (options.graceful || Graceful.instance).
InitStartup(g) ==
  startup = [graceful |-> g,
             errors |-> 0,
             messengerCalls |-> 0,
             inFlight |-> 0,
             kills |-> 0]

\* The coordinator alone, under every configuration of its options.
Init ==
  /\ \E p \in 1..MaxPollInterval : InitGraceful(p, MaxTimeout)
  /\ InitExpress(FALSE, FALSE)
  /\ \E m \in {"sync", "async"} : InitNode(m)
  /\ InitObs
  /\ InitMaster
  /\ InitStartup(TRUE)

\* The coordinator with a messenger that calls back later or throws when
\* it is called.
InitMessenger ==
  /\ InitGraceful(1, MaxTimeout)
  /\ InitExpress(FALSE, FALSE)
  /\ \E m \in {"async", "throws"} : InitNode(m)
  /\ InitObs
  /\ InitMaster
  /\ InitStartup(TRUE)

\* The coordinator with a drainer in front of an http server.
InitDrainer ==
  /\ InitGraceful(1, 2)
  /\ \E test \in BOOLEAN, srv \in BOOLEAN : InitExpress(test, srv)
  /\ InitNode("sync")
  /\ InitObs
  /\ InitMaster
  /\ InitStartup(TRUE)

\* The supervisor of a master process, not linked to a coordinator.
InitSupervisor ==
  /\ InitGraceful(1, MaxTimeout)
  /\ InitExpress(FALSE, FALSE)
  /\ InitNode("sync")
  /\ InitObs
  /\ InitMaster
  /\ InitStartup(TRUE)

\* A master process: the coordinator of the process polls as often as the
\* supervisor or more slowly, and the supervisor is not registered yet.
InitMasterProcess ==
  /\ \E p \in {1, MaxPollInterval} : InitGraceful(p, MaxTimeout)
  /\ InitExpress(FALSE, FALSE)
  /\ InitNode("sync")
  /\ InitObs
  /\ InitMaster
  /\ InitStartup(TRUE)

\* A timeout option larger than what any supervisor of the model asks for.
LargeTimeout == MaxKillTimeout + MaxMasterPoll * 2 + MaxTimeout

\* A master process whose coordinator was created with a short or with a
\* long force timeout (new Graceful({timeout: ...})).
InitRegister ==
  /\ \E t \in {MaxTimeout, LargeTimeout} : InitGraceful(1, t)
  /\ InitExpress(FALSE, FALSE)
  /\ InitNode("sync")
  /\ InitObs
  /\ InitMaster
  /\ InitStartup(TRUE)

\* A process started through Startup, with the coordinator created before
\* it or without a coordinator.
InitProcess ==
  /\ InitGraceful(1, MaxTimeout)
  /\ InitExpress(FALSE, FALSE)
  /\ \E m \in {"sync", "async"} : InitNode(m)
  /\ InitObs
  /\ InitMaster
  /\ \E g \in BOOLEAN : InitStartup(g)

Apply(S) ==
  /\ graceful' = S.g
  /\ express' = S.x
  /\ node' = S.n
  /\ obs' = S.o
  /\ master' = S.m
  /\ startup' = S.s

Running == ~node.exited

UserCount(q, users) == Cardinality({i \in 1..Len(q) : q[i] \in users})

(***************************************************************************)
(* Calls the program makes on the coordinator                              *)
(***************************************************************************)
\* graceful.on('shutdown', l).  A listener registered after the 'shutdown'
\* event was emitted is never called, so registration stops there.
On(l) ==
  /\ Running
  /\ ~graceful.shuttingDown
  /\ l \notin Range(graceful.listeners)
  /\ UserCount(graceful.listeners, UserListeners) < MaxUserListeners
  /\ graceful' = [graceful EXCEPT !.listeners = Append1(@, l)]
  /\ UNCHANGED <<express, node, obs, master, startup>>

\* graceful.addCheck(c) with a function c.  Once _finalLog has run no check
\* is evaluated any more, so registration stops there.
addCheck(c) ==
  /\ Running
  /\ graceful.dieTimers = 0
  /\ c \notin Range(graceful._checks)
  /\ UserCount(graceful._checks, UserChecks) < MaxUserChecks
  /\ Apply(Graceful_addCheck(Bundle, c))

\* graceful.addCheck() or graceful.addCheck('non-function')
addNonFunction(v) ==
  /\ Running
  /\ graceful.dieTimers = 0
  /\ Apply(Graceful_addCheck([Bundle EXCEPT !.o.badAdd = TRUE], v))

\* gracefulExpress.setGraceful(graceful)
setGraceful ==
  /\ Running
  /\ ~express.graceful
  /\ express' = [express EXCEPT !.graceful = TRUE]
  /\ graceful' = [graceful EXCEPT !.listeners = Append1(@, "express"),
                                  !._checks = Append1(@, "express")]
  /\ UNCHANGED <<node, obs, master, startup>>

\* graceful.shutdown(err): a direct call, SIGTERM or the worker's
\* 'disconnect' (the last two without an error).
Shutdown(err) ==
  /\ Running
  /\ \E fc \in BOOLEAN : Apply(shutdown(Bundle, err, 0, fc))

\* The messenger runs its completion callback.
MessengerDone ==
  /\ Running
  /\ node.inFlight
  /\ graceful' = [graceful EXCEPT !._sending = FALSE]
  /\ node' = [node EXCEPT !.inFlight = FALSE]
  /\ UNCHANGED <<express, obs, master, startup>>

(***************************************************************************)
(* Timers of the exit sequence                                             *)
(***************************************************************************)
Due(t) == t.tag = "timer" /\ t.v <= node.clock

\* tryAgain, the callback of the poll interval (setInterval re-arms it).
tryAgain ==
  /\ Running
  /\ Due(graceful.interval)
  /\ \E fc \in BOOLEAN :
       Apply(_exit([Bundle EXCEPT
                      !.g.interval = Timer(@.v + graceful.pollInterval)], fc))

\* forceKill fires when the force timer is due.
ForceKill ==
  /\ Running
  /\ Due(graceful.timeout)
  /\ Apply(forceKill(Bundle))

\* The setTimeout(_die, 0) of _finalLog fires.
Die ==
  /\ Running
  /\ graceful.dieTimers > 0
  /\ Apply(_die(Bundle))

\* One millisecond passes; timers fire no later than they are due.
Tick ==
  /\ Running
  /\ graceful.dieTimers = 0
  /\ graceful.interval.tag = "timer" \/ graceful.timeout.tag = "timer"
  /\ ~Due(graceful.interval)
  /\ ~Due(graceful.timeout)
  /\ node' = [node EXCEPT !.clock = @ + 1]
  /\ UNCHANGED <<graceful, express, obs, master, startup>>

(***************************************************************************)
(* Events of the http server, its sockets and its responses                *)
(***************************************************************************)
NewResponse(socket) ==
  [socket |-> socket, done |-> FALSE, called |-> FALSE, bound |-> FALSE,
   shouldKeepAlive |-> TRUE, outcome |-> "none", runs |-> 0,
   nexts |-> 0, domain |-> FALSE]

InFlight(r) == r \in 1..Len(node.res) /\ ~node.res[r].done

\* The server's 'connection' event: _onConnection when a server is tracked.
Connection(socket) ==
  /\ Running
  /\ node.listening
  /\ socket \notin node.conns
  /\ LET S1 == [Bundle EXCEPT !.n.conns = @ \cup {socket}]
     IN Apply(IF express.server THEN _addSocket(S1, socket) ELSE S1)

\* A request arrives on an open socket and reaches the middleware.
Request(socket) ==
  /\ Running
  /\ socket \in node.conns \ node.destroyed
  /\ Len(node.res) < MaxRequests
  /\ LET S1 == [Bundle EXCEPT !.n.res = Append1(@, NewResponse(socket))]
     IN Apply(middleware(S1, Len(S1.n.res)))

\* The first of finish/close/end fires on an in-flight response.
ResponseDone(r) ==
  /\ Running
  /\ InFlight(r)
  /\ Apply(EmitResEvent(Bundle, r))

\* Another of finish/close/end fires on the same response.
ResponseEventAgain(r) ==
  /\ Running
  /\ r \in 1..Len(node.res)
  /\ node.res[r].done
  /\ Apply([EmitResEvent(Bundle, r) EXCEPT !.o.repeated = TRUE])

\* The error thrown while handling request r: each request throws its own.
ThrownBy(r) == IF r = 1 THEN PlainError ELSE ErrorWith(MaxExitCode)

\* The request domain catches an error thrown while handling r.
RequestError(r, err) ==
  /\ Running
  /\ InFlight(r)
  /\ node.res[r].domain
  /\ node.res[r].outcome = "passed"
  /\ \E fc \in BOOLEAN : Apply(_onError(Bundle, r, err, fc))

\* 'close' on every response of the socket that is still in flight.
RECURSIVE AbortResponses(_, _, _)
AbortResponses(S, socket, r) ==
  IF r > Len(S.n.res) THEN S
  ELSE IF S.n.res[r].socket = socket /\ ~S.n.res[r].done
    THEN AbortResponses(EmitResEvent(S, r), socket, r + 1)
  ELSE AbortResponses(S, socket, r + 1)

\* The n 'close' listeners of the drainer on socket run, one after another.
RECURSIVE RunCloseListeners(_, _, _)
RunCloseListeners(S, socket, n) ==
  IF n = 0 THEN S
  ELSE RunCloseListeners(_removeSocket(S, socket), socket, n - 1)

\* A socket closes (the peer hung up, the response said Connection: close,
\* or destroySoon() was called): its unfinished responses emit 'close', and
\* the socket's 'close' listener runs _removeSocket.
SocketClose(socket) ==
  /\ Running
  /\ socket \in node.conns
  /\ LET S1 == AbortResponses(Bundle, socket, 1)
         S2 == RunCloseListeners(S1, socket, node.closeListeners[socket])
     IN Apply([S2 EXCEPT !.n.conns = @ \ {socket},
                         !.n.destroyed = @ \ {socket},
                         !.n.closeListeners[socket] = 0])

\* The server's 'close' event: node emits it once close() was called and
\* every connection has ended.
ServerClosed ==
  /\ Running
  /\ node.closeCalled
  /\ node.conns = {}
  /\ ~node.closeEmitted
  /\ LET S1 == [Bundle EXCEPT !.n.closeEmitted = TRUE]
     IN Apply(IF express.server THEN _onClose(S1) ELSE S1)

\* _addSocket is called for a socket that is already connected, as for a
\* second 'connection' report of the same socket.
AddSocketAgain(socket) ==
  /\ Running
  /\ express.server
  /\ socket \in node.conns
  /\ Apply(_addSocket([Bundle EXCEPT !.o.readded = TRUE], socket))

\* The socket reaper's interval fires.
ReaperTick ==
  /\ Running
  /\ express.interval
  /\ Apply(_closeInactiveSockets(Bundle))

(***************************************************************************)
(* Events of the master process: the program's calls, the cluster module,  *)
(* the workers and the supervisor's timers                                 *)
(***************************************************************************)
\* The workers forked so far.
Workers == 1..Len(master.w)

\* master.start()
Start ==
  /\ ~master.started
  /\ Apply(start(Bundle))

\* master.stop(cb)
Stop ==
  /\ master.started
  /\ Len(master.stops) < MaxStops
  /\ Apply(stop(Bundle, "user"))

\* master.stop() without a callback
StopWithoutCallback ==
  /\ master.started
  /\ Apply(stop([Bundle EXCEPT !.o.bareStop = TRUE], "none"))

\* Forks still to come fit into Pids.
CanFork == master.forks + Len(master.pending) < MaxForks

\* master.sigterm and master.sigint hold the signals sent to the workers
\* that are listed in cluster.workers.
Gone(S, pid) ==
  IF S.m.w[pid].st = "dead"
    THEN [S EXCEPT !.m.sigterm = @ \ {pid}, !.m.sigint = @ \ {pid}]
    ELSE S

\* Worker pid ends (on its own, or after a signal) and the cluster emits
\* 'disconnect' for it: with the worker still listed in cluster.workers
\* when its process has not exited yet, after removing it otherwise.
Disconnect(pid) ==
  /\ pid \in Workers
  /\ master.w[pid].st = "live"
  /\ master.shuttingDown \/ CanFork
  /\ \E st \in {"disc", "dead"} :
       Apply(_restartWorker(Gone([Bundle EXCEPT !.m.w[pid].st = st], pid), pid))

\* The process of a disconnected worker exits and the worker leaves
\* cluster.workers.
Removed(pid) ==
  /\ pid \in Workers
  /\ master.w[pid].st = "disc"
  /\ Apply(Gone([Bundle EXCEPT !.m.w[pid].st = "dead"], pid))

\* The timer of a delayed replacement fires.
DelayedStart ==
  /\ Len(master.pending) > 0
  /\ master.pending[1].left = 0
  /\ Apply(_startWorker([Bundle EXCEPT !.m.pending = Tail(@)], "delayed"))

\* The force timer of the k-th stop call fires.
StopForceKill(k) ==
  /\ k \in 1..Len(master.stops)
  /\ master.stops[k].timeout.on
  /\ master.stops[k].timeout.left = 0
  /\ Apply(stop_forceKill(Bundle, k))

\* The poll interval of the k-th stop call fires.
StopPoll(k) ==
  /\ k \in 1..Len(master.stops)
  /\ master.stops[k].interval.on
  /\ master.stops[k].interval.left = 0
  /\ Apply(checkAndReturn(Bundle, k))

Left(t) == IF t.on /\ t.left > 0 THEN [t EXCEPT !.left = @ - 1] ELSE t

\* No timer of the master process is due.
NoneDue(m) ==
  /\ \A i \in 1..Len(m.pending) : m.pending[i].left > 0
  /\ \A k \in 1..Len(m.stops) :
       /\ m.stops[k].timeout.on => m.stops[k].timeout.left > 0
       /\ m.stops[k].interval.on => m.stops[k].interval.left > 0

\* A timer of the master process is armed, or an age it reads still grows.
Advances(m) ==
  \/ Len(m.pending) > 0
  \/ \E k \in 1..Len(m.stops) :
       \/ m.stops[k].timeout.on
       \/ m.stops[k].interval.on
       \/ m.stops[k].age < m.killTimeout
  \/ \E pid \in 1..Len(m.w) :
       m.w[pid].tracked /\ m.w[pid].age < m.spinTimeout

\* The supervisor's timers and ages one millisecond later.
Later(m) ==
  [m EXCEPT
     !.pending = [i \in 1..Len(@) |->
                    [left |-> @[i].left - 1,
                     waited |-> IF @[i].waited < m.delayStart
                                  THEN @[i].waited + 1 ELSE @[i].waited]],
     !.stops = [k \in 1..Len(@) |->
                  [@[k] EXCEPT
                     !.timeout = Left(@),
                     !.interval = Left(@),
                     !.age = IF @ < m.killTimeout THEN @ + 1 ELSE @]],
     !.w = [pid \in 1..Len(@) |->
              [@[pid] EXCEPT
                 !.age = IF m.w[pid].tracked /\ @ < m.spinTimeout
                           THEN @ + 1 ELSE @]]]

\* One millisecond passes in the master process; timers fire no later than
\* they are due.
MasterTick ==
  /\ NoneDue(master)
  /\ Advances(master)
  /\ master' = Later(master)
  /\ UNCHANGED <<graceful, express, node, obs, startup>>

\* new Master({graceful: ...}): the constructor calls setGraceful.
NewMaster ==
  /\ Running
  /\ ~master.graceful
  /\ ~master.started
  /\ ~graceful.shuttingDown
  /\ Apply(Master_setGraceful(Bundle))

\* One millisecond passes in a master process that has a coordinator: the
\* timers of both run on the one clock of the process.
ClusterTick ==
  /\ Running
  /\ graceful.dieTimers = 0
  /\ ~Due(graceful.interval)
  /\ ~Due(graceful.timeout)
  /\ NoneDue(master)
  /\ \/ graceful.interval.tag = "timer"
     \/ graceful.timeout.tag = "timer"
     \/ Advances(master)
  /\ node' = IF graceful.interval.tag = "timer" \/ graceful.timeout.tag = "timer"
               THEN [node EXCEPT !.clock = @ + 1] ELSE node
  /\ master' = Later(master)
  /\ UNCHANGED <<graceful, express, obs, startup>>

\* The top-level domain emits 'error'.
TopLevelError(err) ==
  /\ Running
  /\ startup.errors < MaxErrors
  /\ \E fc \in BOOLEAN : Apply(Startup_onError(Bundle, err, fc))

\* The messenger called by Startup runs its callback.
StartupMessengerDone ==
  /\ Running
  /\ startup.inFlight > 0
  /\ Apply(Startup_kill([Bundle EXCEPT !.s.inFlight = @ - 1]))

\* The coordinator and the calls a program makes on it.
Next ==
  \/ \E l \in UserListeners : On(l)
  \/ \E c \in UserChecks : addCheck(c)
  \/ \E err \in ErrVals : Shutdown(err)
  \/ MessengerDone
  \/ tryAgain
  \/ ForceKill
  \/ Die
  \/ Tick

Spec == Init /\ [][Next]_vars

\* The same calls on a coordinator whose messenger may throw.
SpecMessenger == InitMessenger /\ [][Next]_vars

\* The coordinator, the drainer and the http server.  The program registers
\* its own listener ahead of the drainer's and calls shutdown() itself once,
\* without an error; shutdown(err) comes from the request domains.  Each
\* response fires one of finish/close/end; further signals on a response
\* are events of SpecRequests.
NextDrainer ==
  \/ setGraceful
  \/ (~express.graceful /\ On("thrower"))
  \/ (~graceful.shuttingDown /\ Shutdown(NoError))
  \/ tryAgain
  \/ ForceKill
  \/ Die
  \/ Tick
  \/ \E socket \in Sockets : Connection(socket)
  \/ \E socket \in Sockets : Request(socket)
  \/ \E r \in 1..MaxRequests : ResponseDone(r)
  \/ \E r \in 1..MaxRequests : RequestError(r, ThrownBy(r))
  \/ \E socket \in Sockets : SocketClose(socket)
  \/ ServerClosed
  \/ ReaperTick

SpecDrainer == InitDrainer /\ [][NextDrainer]_vars

\* The drainer and the http server with every signal of the responses, up
\* to the first timer of the coordinator.
NextRequests ==
  \/ setGraceful
  \/ (~graceful.shuttingDown /\ Shutdown(NoError))
  \/ \E socket \in Sockets : Connection(socket)
  \/ \E socket \in Sockets : Request(socket)
  \/ \E r \in 1..MaxRequests : ResponseDone(r)
  \/ \E r \in 1..MaxRequests : ResponseEventAgain(r)
  \/ \E r \in 1..MaxRequests : RequestError(r, ThrownBy(r))
  \/ \E socket \in Sockets : SocketClose(socket)
  \/ ServerClosed
  \/ ReaperTick

SpecRequests == InitDrainer /\ [][NextRequests]_vars

\* The same, with _addSocket also called for sockets that are connected.
NextSockets ==
  \/ NextRequests
  \/ \E socket \in Sockets : AddSocketAgain(socket)

SpecSockets == InitDrainer /\ [][NextSockets]_vars

\* The same, with the reaper's setInterval firing again and again for as
\* long as it is armed.
SpecReaper == InitDrainer /\ [][NextRequests]_vars /\ WF_vars(ReaperTick)

\* The supervisor, the cluster module and the workers.
NextSupervisor ==
  \/ Start
  \/ Stop
  \/ \E pid \in Pids : Disconnect(pid)
  \/ \E pid \in Pids : Removed(pid)
  \/ DelayedStart
  \/ \E k \in 1..MaxStops : StopForceKill(k)
  \/ \E k \in 1..MaxStops : StopPoll(k)
  \/ MasterTick

SpecSupervisor == InitSupervisor /\ [][NextSupervisor]_vars

\* The supervisor with a program that also calls stop() without a callback.
NextStop ==
  \/ NextSupervisor
  \/ StopWithoutCallback

SpecStop == InitSupervisor /\ [][NextStop]_vars

\* The master process: a supervisor registered with the coordinator of the
\* process, the cluster module and the workers.  The program starts the
\* workers and leaves shutdown()/stop() to the coordinator (SIGTERM).
NextMaster ==
  \/ NewMaster
  \/ (Running /\ master.graceful /\ Start)
  \/ (master.started /\ ~graceful.shuttingDown /\ Shutdown(NoError))
  \/ \E pid \in Pids : (Running /\ Disconnect(pid))
  \/ \E pid \in Pids : (Running /\ Removed(pid))
  \/ (Running /\ DelayedStart)
  \/ \E k \in 1..MaxStops : (Running /\ StopForceKill(k))
  \/ \E k \in 1..MaxStops : (Running /\ StopPoll(k))
  \/ tryAgain
  \/ ForceKill
  \/ Die
  \/ ClusterTick

SpecMaster == InitMasterProcess /\ [][NextMaster]_vars

\* The same, for coordinators of either force timeout.
SpecRegister == InitRegister /\ [][NextMaster]_vars

\* A process under Startup: errors reach the top-level domain; a coordinator,
\* when there is one, also has the program's checks and SIGTERM.
NextStartup ==
  \/ \E err \in Errors : TopLevelError(err)
  \/ StartupMessengerDone
  \/ (startup.graceful /\ \E c \in UserChecks : addCheck(c))
  \/ (startup.graceful /\ \E v \in NonFunctions : addNonFunction(v))
  \/ (startup.graceful /\ ~graceful.shuttingDown /\ Shutdown(NoError))
  \/ MessengerDone
  \/ tryAgain
  \/ ForceKill
  \/ Die
  \/ Tick

SpecStartup == InitProcess /\ [][NextStartup]_vars

(***************************************************************************)
(* Properties of the coordinator (specification Spec)                      *)
(***************************************************************************)
SomeCall == obs.calls >= 1

\* C1: whatever shutdown() calls are made (with or without an error, also
\* from inside a 'shutdown' listener), the messenger is called at most once,
\* the 'shutdown' event is emitted exactly once and _exit is started from
\* shutdown() exactly once.
C1_ShutdownIdempotent ==
  /\ obs.messengerCalls <= 1
  /\ obs.emits = (IF SomeCall THEN 1 ELSE 0)
  /\ obs.exitStarts = (IF SomeCall THEN 1 ELSE 0)

\* Three or more calls, one of them from inside a listener, the first with
\* an error.
C1_Witness ==
  /\ obs.calls = MaxCalls
  /\ "reenter" \in Range(obs.invoked)
  /\ obs.messengerCalls = 1

\* The checks registered when shutdown() was called include one that never
\* returns true.
NeverTrueRegistered == obs.registered \cap {"stuck", "thrower"} # {}

\* C2 (as claimed): with a check that never returns true, the process exits
\* through the forced path, the force timer firing `timeout` ms after the
\* exit sequence armed it.
C2_Original ==
  (node.exited /\ NeverTrueRegistered)
    => /\ obs.exitPath = "forced"
       /\ obs.decidedAt = obs.armedAt + obs.armedFor

\* C3: after shutdown() without an error, once an evaluation has found every
\* registered check returning true the exit is the ready one and stays so
\* (the force timer never fires), and the process exits with code 0.
C3_ReadyPath ==
  (obs.passedOnce /\ ~graceful.error.isError)
    => /\ obs.exitPath = "ready"
       /\ graceful.timeout.tag # "timer"
       /\ (node.exited => node.exitCode = 0)

\* The checks passed at a poll tick (not on entry), with a user check
\* registered, and the process has exited.
C3_Witness ==
  /\ obs.passedOnce
  /\ ~graceful.error.isError
  /\ obs.evals >= 2
  /\ Len(graceful._checks) >= 2
  /\ node.exited
  /\ node.exitCode = 0

\* C6 (as claimed): when a 'shutdown' listener throws, every listener
\* registered at the time of the call is still invoked and the exit sequence
\* is started.
C6_Original ==
  obs.caught
    => /\ \A i \in 1..obs.atShutdown :
            graceful.listeners[i] \in Range(obs.invoked)
       /\ obs.exitStarts = 1

\* C7 (as claimed): an evaluation in which a check threw counts as not
\* ready.
C7_Original ==
  (obs.evals >= 1 /\ "throw" \in Range(obs.lastEval)) => ~obs.lastResult

\* C8: while the messenger call is in flight the exit is never the ready
\* one; the process can only have been taken down by the force timer.
C8_NoReadyExitWhileSending ==
  node.inFlight => obs.exitPath # "ready"

\* shutdown(err) was called, the messenger never called back, and the force
\* timer took the process down.
C8_Witness ==
  /\ node.inFlight
  /\ graceful.error.isError
  /\ node.exited
  /\ obs.exitPath = "forced"

\* C9 (as claimed): exit code 0 without an error, the error's exitCode when
\* it carries one (whatever its value), 1 when it carries none.
ClaimedExitCode(error) ==
  IF ~error.isError THEN 0
  ELSE IF error.hasExitCode THEN error.exitCode
  ELSE 1

C9_Original ==
  node.exited => node.exitCode = ClaimedExitCode(graceful.error)

\* A path to process exit is pending or taken.
ExitPending ==
  \/ node.exited
  \/ graceful.dieTimers > 0
  \/ graceful.interval.tag = "timer" /\ graceful.timeout.tag = "timer"

\* C10: shuttingDown goes from false to true on the first shutdown() call
\* and only then; afterwards no step resets it, starts the exit sequence a
\* second time, or leaves the shutdown without a pending path to exit.
C10_Latched ==
  [][/\ graceful.shuttingDown
          => /\ graceful'.shuttingDown
             /\ obs'.flips = obs.flips
             /\ obs'.exitStarts = obs.exitStarts
     /\ (~graceful.shuttingDown /\ graceful'.shuttingDown)
          => /\ obs.calls = 0
             /\ obs'.flips = 1
             /\ obs'.exitStarts = 1
     /\ (obs.calls = 0 /\ obs'.calls > 0) => graceful'.shuttingDown
     /\ graceful'.shuttingDown => ExitPending']_vars

\* A later shutdown() call was made while the first shutdown was polling.
C10_Witness ==
  /\ graceful.shuttingDown
  /\ obs.calls >= 2
  /\ obs.flips = 1
  /\ graceful.interval.tag = "timer"
  /\ node.clock >= 1

(***************************************************************************)
(* Properties of the drainer (specification SpecDrainer)                   *)
(***************************************************************************)
\* The responses the middleware tracks that have fired none of
\* finish/close/end.
ResponsesInFlight ==
  {r \in 1..Len(node.res) : node.res[r].bound /\ ~node.res[r].done}

\* The requests the middleware passed on to the application whose response
\* has fired none of finish/close/end.
AcceptedInFlight ==
  {r \in 1..Len(node.res) :
     node.res[r].outcome \in {"passed", "errored"} /\ ~node.res[r].done}

C5_Original ==
  Express_isReadyForShutdown(Bundle)
    = (\/ ~express.server
       \/ ResponsesInFlight = {}
       \/ express.server /\ node.closeEmitted)

\* C5 (amended): in in-process-test mode the check returns true; otherwise,
\* without a server, it returns true iff no response is in flight, and with
\* a tracked server iff the server's close event has fired.
C5_Readiness ==
  Express_isReadyForShutdown(Bundle)
    = (IF express.inProcessTest THEN TRUE
       ELSE IF ~express.server THEN ResponsesInFlight = {}
       ELSE node.closeEmitted)

\* A tracked server is shutting down with no response in flight, its close
\* event has not fired, and the check was evaluated and failed.
C5_Witness ==
  /\ ~express.inProcessTest
  /\ express.server
  /\ express.shuttingDown
  /\ ResponsesInFlight = {}
  /\ ~node.closeEmitted
  /\ obs.evals >= 1
  /\ ~obs.lastResult

\* Number of occurrences of e in sequence q.
Count(q, e) == Cardinality({i \in 1..Len(q) : q[i] = e})

\* The tracked responses on socket whose completion handler has not run.
Pending(socket) ==
  {r \in 1..Len(node.res) :
     /\ node.res[r].socket = socket
     /\ node.res[r].bound
     /\ ~node.res[r].called}

Busy(socket) ==
  \E r \in 1..Len(node.res) :
     node.res[r].socket = socket /\ ~node.res[r].done

\* The step in which the drainer receives the shutdown notification.
Notified == ~express.shuttingDown /\ express'.shuttingDown

\* The sweeps spare busy sockets: the notification destroys the open
\* sockets without a request in flight and no others, and no socket is
\* destroyed while a request on it is in flight.
SweepSpares ==
  /\ Notified
       => \A socket \in node.conns :
            (socket \in node'.destroyed) <=> ~Busy(socket)
  /\ \A socket \in node'.destroyed : ~Busy(socket)'

\* C12 (as claimed): the sweeps spare busy sockets, and the notification
\* destroys the idle ones, whatever sockets were accepted before shutdown.
C12_Original == [][SweepSpares]_vars

\* C12 (amended): with a tracked server and outside in-process-test mode,
\* the shutdown notification destroys at once every open socket without a
\* request in flight and none with one, and no later sweep destroys a
\* socket before the requests on it have completed.
C12_IdleSweep ==
  [][(express.server /\ ~express.inProcessTest) => SweepSpares]_vars

\* After the notification one socket is destroyed and another, with a
\* request accepted before the shutdown still in flight, is not.
C12_Witness ==
  /\ express.server
  /\ ~express.inProcessTest
  /\ express.shuttingDown
  /\ \E A \in node.conns \ node.destroyed, B \in node.destroyed :
       \E r \in 1..Len(node.res) :
          /\ node.res[r].socket = A
          /\ node.res[r].outcome = "passed"
          /\ ~node.res[r].done

\* Runs of the completion handler of response r before the step.
RunsBefore(r) == IF r <= Len(node.res) THEN node.res[r].runs ELSE 0

\* Responses on socket that the middleware starts tracking in the step.
Registered(socket) ==
  {r \in 1..Len(node'.res) :
     /\ node'.res[r].socket = socket
     /\ node'.res[r].bound
     /\ r > Len(node.res)}

\* Responses on socket whose completion handler runs in the step.
Completed(socket) ==
  {r \in 1..Len(node'.res) :
     node'.res[r].socket = socket /\ node'.res[r].runs > RunsBefore(r)}

\* C13: whichever of finish/close/end fire on a response and however often,
\* its completion handler runs at most once; in every step the occurrence
\* count of a socket in _activeSockets goes down by exactly one per handler
\* that runs for a response on it, and _responses holds, once each, exactly
\* the tracked responses whose handler has not run.
C13_CompletesOnce ==
  [][/\ \A r \in 1..Len(node'.res) : node'.res[r].runs <= 1
     /\ \A socket \in Sockets :
          Count(express'._activeSockets, socket)
            = Count(express._activeSockets, socket)
                + Cardinality(Registered(socket))
                - Cardinality(Completed(socket))
     /\ \A r \in 1..Len(node'.res) :
          Count(express'._responses, r)
            = (IF node'.res[r].bound /\ node'.res[r].runs = 0 THEN 1 ELSE 0)
    ]_vars

\* The only request made has completed, a further signal has fired on its
\* response, and its handler has run once.
C13_Witness ==
  /\ Len(node.res) = 1
  /\ node.res[1].bound
  /\ node.res[1].done
  /\ obs.repeated
  /\ node.res[1].runs = 1
  /\ express._activeSockets = <<>>

\* What the claim says of a step: a request that reaches the middleware
\* once the drainer is shutting down has keep-alive disabled and next
\* called once, with the 503 error, and that stays so.
RejectsLate ==
  /\ (express.shuttingDown /\ Len(node'.res) > Len(node.res))
       => LET r == Len(node'.res)
          IN /\ node'.res[r].outcome = "rejected"
             /\ node'.res[r].nexts = 1
             /\ ~node'.res[r].shouldKeepAlive
  /\ \A r \in 1..Len(node.res) :
       node.res[r].outcome = "rejected"
         => /\ node'.res[r].outcome = "rejected"
            /\ node'.res[r].nexts = 1
            /\ ~node'.res[r].shouldKeepAlive

C16_NormalOperation ==
  ~express.shuttingDown
    => \A r \in 1..Len(node.res) :
         /\ node.res[r].outcome # "rejected"
         /\ node.res[r].outcome = "passed" => node.res[r].shouldKeepAlive

\* Before any shutdown the middleware has tracked two requests; one has
\* completed, one is in flight, both with keep-alive as it came.
C16_Witness ==
  /\ ~graceful.shuttingDown
  /\ ~express.shuttingDown
  /\ ~express.inProcessTest
  /\ \E r, q \in 1..Len(node.res) :
       /\ node.res[r].bound /\ node.res[r].done
       /\ node.res[q].bound /\ ~node.res[q].done
       /\ node.res[r].shouldKeepAlive
       /\ node.res[q].shouldKeepAlive

\* The responses whose request's error reaches _onError in the step.
Failing ==
  {r \in 1..Len(node.res) :
     node.res[r].outcome = "passed" /\ node'.res[r].outcome = "errored"}

\* C17: when the domain of request r catches an error, the response has
\* keep-alive disabled and next is called once more, with the error; a
\* linked coordinator gets one shutdown() call, which starts the shutdown
\* with this error if none was under way and changes nothing of a shutdown
\* that was; without a linked coordinator none is started.
C17_OnError ==
  [][\A r \in Failing :
       /\ ~node'.res[r].shouldKeepAlive
       /\ node'.res[r].nexts = node.res[r].nexts + 1
       /\ express.graceful
            => /\ obs.calls < MaxCalls => obs'.calls = obs.calls + 1
               /\ graceful'.shuttingDown
               /\ IF graceful.shuttingDown
                    THEN /\ graceful'.error = graceful.error
                         /\ obs'.flips = obs.flips
                         /\ obs'.exitStarts = obs.exitStarts
                         /\ obs'.messengerCalls = obs.messengerCalls
                    ELSE /\ graceful'.error = ThrownBy(r)
                         /\ obs'.flips = 1
                         /\ obs'.exitStarts = 1
                         /\ obs'.messengerCalls = 1
       /\ ~express.graceful
            => /\ graceful' = graceful
               /\ obs'.calls = obs.calls
    ]_vars

\* Two requests in flight together have both failed; the shutdown runs with
\* the error of the one that failed first, here the second request.
C17_Witness ==
  /\ express.graceful
  /\ Len(node.res) >= 2
  /\ node.res[1].outcome = "errored"
  /\ node.res[2].outcome = "errored"
  /\ ~node.res[1].done
  /\ ~node.res[2].done
  /\ graceful.error = ThrownBy(2)
  /\ obs.flips = 1
  /\ obs.messengerCalls = 1

(***************************************************************************)
(* Properties of the supervisor (specification SpecSupervisor)             *)
(***************************************************************************)
\* The workers whose 'disconnect' reaches _restartWorker in the step.
Exiting ==
  {pid \in Workers : master.w[pid].tracked /\ ~master'.w[pid].tracked}

\* C18: when a tracked worker exits while the supervisor is not shutting
\* down, a worker that lived spinTimeout or longer is replaced in the same
\* step; for one that lived less no fork is made then but a timer is set,
\* and the fork a timer makes comes when delayStart has passed since the
\* exit.
C18_Restart ==
  [][/\ \A pid \in Exiting :
          ~master.shuttingDown
            => IF master.w[pid].age < master.spinTimeout
                 THEN /\ master'.forks = master.forks
                      /\ master'.pending =
                           Append1(master.pending,
                                   [left |-> master.delayStart, waited |-> 0])
                 ELSE /\ master'.forks = master.forks + 1
                      /\ master'.w[master'.forks].via = "restart"
                      /\ master'.pending = master.pending
     /\ (master'.forks > master.forks /\ Exiting = {} /\ master.started)
          => /\ Len(master.pending) > 0
             /\ master.pending[1].waited = master.delayStart
             /\ master'.pending = Tail(master.pending)
             /\ master'.forks = master.forks + 1
    ]_vars

\* One worker was replaced at once and another after the delay.
C18_Witness ==
  /\ ~master.shuttingDown
  /\ \E pid, q \in Workers :
       /\ master.w[pid].via = "restart"
       /\ master.w[q].via = "delayed"

\* The stop calls made before the step.
Stops == 1..Len(master.stops)

\* C19: the callback of a stop call is invoked at most once, in a step in
\* which the poll of that call fires and finds cluster.workers empty; from
\* then on the poll timer and the force timer of the call are cleared.
C19_StopCallback ==
  [][\A k \in Stops :
       /\ master'.stops[k].cbs <= 1
       /\ master'.stops[k].cbs >= master.stops[k].cbs
       /\ master'.stops[k].cbs > master.stops[k].cbs
            => /\ ClusterWorkers(master) = {}
               /\ master.stops[k].interval = In(0)
       /\ master'.stops[k].cbs = 1
            => /\ master'.stops[k].timeout = Off
               /\ master'.stops[k].interval = Off
    ]_vars

\* Every worker was gone before killTimeout had passed: the callback was
\* invoked while the force timer was still armed.
C19_Witness ==
  /\ master.stops # <<>>
  /\ master.stops[1].cbs = 1
  /\ master.stops[1].age < master.killTimeout
  /\ master.stops[1].timeout = Off
  /\ master.forks >= master.numberWorkers
  /\ ClusterWorkers(master) = {}

\* The workers listed in cluster.workers that are keys of this._workers.
TrackedLive == {pid \in ClusterWorkers(master) : master.w[pid].tracked}

\* The stop calls whose force timer fires in the step.
Forcing ==
  {k \in Stops :
     /\ master.stops[k].timeout.on
     /\ ~master'.stops[k].timeout.on
     /\ master'.stops[k].cbs = master.stops[k].cbs}

\* C20: a stop call sends SIGTERM to every tracked worker in the step of the
\* call and SIGINT to none; SIGINT is sent only by a force timer,
\* killTimeout after its stop call, to the tracked workers then listed and
\* to all of them.
C20_Signals ==
  [][/\ Len(master'.stops) > Len(master.stops)
          => /\ TrackedLive \subseteq master'.sigterm
             /\ master'.sigint = master.sigint
     /\ Forcing # {}
          => /\ TrackedLive \subseteq master'.sigint
             /\ \A k \in Forcing : master.stops[k].age = master.killTimeout
     /\ (master'.sigint \ master.sigint) # {}
          => /\ Forcing # {}
             /\ (master'.sigint \ master.sigint) \subseteq TrackedLive
    ]_vars

\* killTimeout after the stop call one worker has exited and the other,
\* still alive, has been sent SIGTERM and then SIGINT.
C20_Witness ==
  /\ master.stops # <<>>
  /\ master.stops[1].age = master.killTimeout
  /\ master.stops[1].cbs = 0
  /\ \E pid, q \in Workers :
       /\ master.w[pid].st = "live"
       /\ pid \in master.sigterm
       /\ pid \in master.sigint
       /\ master.w[q].st = "dead"
       /\ master.w[q].via = "start"

(***************************************************************************)
(* The supervisor registered with the coordinator                          *)
(***************************************************************************)
\* The supervisor's 'shutdown' listener has run.
MasterNotified == \E k \in Stops : master.stops[k].cb = "own"

\* The callback _onShutdown gave to stop() has run.
MasterStopped == \E k \in Stops : master.stops[k].cb = "own" /\ master.stops[k].cbs > 0

\* C21: the supervisor's check returns true iff _workersActive is false; it
\* returns false from the shutdown notification until the callback of stop()
\* has run; and the coordinator of a notified master never decides the ready
\* exit while cluster.workers still lists a worker.
C21_Original ==
  /\ Master_isReadyForShutdown(Bundle) <=> ~master._workersActive
  /\ (MasterNotified /\ ~MasterStopped) => ~Master_isReadyForShutdown(Bundle)
  /\ (MasterNotified /\ obs.exitPath = "ready") => obs.workersAtDecision = {}

\* The workers listed at a ready exit are replacements a delay timer forked
\* after stop().
C21_LateForksOnly ==
  /\ Master_isReadyForShutdown(Bundle) <=> ~master._workersActive
  /\ (MasterNotified /\ ~MasterStopped) => ~Master_isReadyForShutdown(Bundle)
  /\ (MasterNotified /\ obs.exitPath = "ready")
       => \A pid \in obs.workersAtDecision :
            /\ master.w[pid].via = "delayed"
            /\ pid \notin master.sigterm

\* The force timeout the supervisor asks of its coordinator.
AskedTimeout == master.killTimeout + master.pollInterval * 2

\* C22: once a supervisor is registered the coordinator's force timeout is
\* at least killTimeout + 2 * pollInterval, before the shutdown as the
\* option and after it as the delay the force timer was armed with; and when
\* the coordinator of a notified master decides the forced exit, the force
\* timer of the supervisor's stop() is no longer pending: it has sent SIGINT
\* killTimeout after the notification, or stop() had completed before.
C22_ForceOrder ==
  /\ (master.graceful /\ ~graceful.shuttingDown)
       => /\ graceful.timeout.tag = "ms"
          /\ graceful.timeout.v >= AskedTimeout
  /\ (MasterNotified /\ obs.armedFor > 0) => obs.armedFor >= AskedTimeout
  /\ (MasterNotified /\ obs.exitPath = "forced")
       => /\ obs.decidedAt >= obs.armedAt + AskedTimeout
          /\ \A k \in Stops :
               master.stops[k].cb = "own"
                 => /\ ~master.stops[k].timeout.on
                    /\ master.stops[k].age = master.killTimeout

\* A worker ignored SIGTERM and SIGINT: the supervisor sent SIGINT and the
\* coordinator then forced the exit of the master.
C22_Witness ==
  /\ MasterNotified
  /\ obs.exitPath = "forced"
  /\ \E pid \in master.sigint : master.w[pid].st = "live"

\* The listeners registered when shutdown() was called, in their order.
AtShutdown == SubSeq(graceful.listeners, 1, obs.atShutdown)

\* C23 (as claimed): a shutdown() call starts the transport call when it has
\* an error, then invokes every listener registered at the call, in
\* registration order, and then evaluates the checks for the first time.
C23_Original ==
  obs.flips >= 1
    => /\ obs.messengerCalls = (IF graceful.error # NoError THEN 1 ELSE 0)
       /\ obs.invoked = AtShutdown
       /\ obs.evals >= 1

\* The listeners that are invoked are the first registered ones, in
\* registration order, up to the first that throws; all of them when none
\* throws.
C23_OrderOnly ==
  obs.flips >= 1
    => /\ obs.messengerCalls = (IF graceful.error # NoError THEN 1 ELSE 0)
       /\ Len(obs.invoked) <= obs.atShutdown
       /\ obs.invoked = SubSeq(AtShutdown, 1, Len(obs.invoked))
       /\ ~obs.caught => obs.invoked = AtShutdown
       /\ obs.caught => obs.invoked[Len(obs.invoked)] \in {"thrower", "reenter"}
       /\ obs.evals >= 1

\* C24 (as claimed): after the ready transition no timer started for the
\* shutdown is armed: the coordinator's poll interval and force timer, the
\* drainer's socket reaper, the poll and force timers of the supervisor's
\* stop().
C24_Original ==
  obs.exitPath = "ready"
    => /\ graceful.interval = Null
       /\ graceful.timeout = Null
       /\ ~express.interval
       /\ \A k \in Stops : master.stops[k].cb = "own"
            => ~master.stops[k].timeout.on /\ ~master.stops[k].interval.on

\* The timers of the coordinator and of the supervisor's stop() are cleared
\* at the ready transition, and so is the reaper of a drainer whose tracked
\* server is still open when the drainer is notified.
C24_ButReaper ==
  obs.exitPath = "ready"
    => /\ graceful.interval = Null
       /\ graceful.timeout = Null
       /\ express.interval
            => \/ ~express.server
               \/ express.inProcessTest
               \/ "express" \notin obs.decidedWith
               \/ ~node.closeCalled
       /\ \A k \in Stops : master.stops[k].cb = "own"
            => ~master.stops[k].timeout.on /\ ~master.stops[k].interval.on

C26_InProcessTest ==
  [][express.inProcessTest
       => /\ Express_isReadyForShutdown(Bundle)'
          /\ \A r \in 1..Len(node'.res) : ~node'.res[r].domain
          /\ Len(node'.res) > Len(node.res)
               => /\ node'.res[Len(node'.res)].nexts = 1
                  /\ node'.res[Len(node'.res)].outcome = "passed"
                  /\ ~node'.res[Len(node'.res)].bound
                  /\ express' = express
                  /\ graceful' = graceful
                  /\ obs'.calls = obs.calls
    ]_vars

\* A request was let through in in-process-test mode while the drainer was
\* shutting down with a server that has not closed.
C26_Witness ==
  /\ express.inProcessTest
  /\ express.shuttingDown
  /\ express.server
  /\ ~express._serverClosed
  /\ \E r \in 1..Len(node.res) : node.res[r].nexts = 1 /\ ~node.res[r].done
  /\ Express_isReadyForShutdown(Bundle)

(***************************************************************************)
(* Arguments that are refused                                              *)
(***************************************************************************)
\* C27: a stop() call without a callback throws and changes nothing: the
\* supervisor's fields (shuttingDown, the signals sent, the timers of the
\* stop calls) and the workers are as before the call, and shuttingDown is
\* false as long as no call had a callback.
C27_StopNeedsCallback ==
  [][/\ (obs'.bareStop /\ ~obs.bareStop)
          => /\ obs'.stopThrew
             /\ master' = master
             /\ graceful' = graceful
     /\ (obs'.bareStop /\ Len(master'.stops) = 0)
          => /\ ~master'.shuttingDown
             /\ master'.sigterm = {}
             /\ master'.sigint = {}
    ]_vars

\* stop() was called without a callback while workers were running; they
\* run on.
C27_Witness ==
  /\ obs.bareStop
  /\ obs.stopThrew
  /\ ~master.shuttingDown
  /\ ClusterWorkers(master) # {}

\* C28: addCheck with nothing or with a non-function throws and leaves the
\* coordinator as it was, so _checks never holds a non-function; addCheck
\* with a function appends that one check after those already there; and
\* every evaluation calls the registered checks in order, all of them unless
\* one returns a falsy value.
C28_AddCheck ==
  [][/\ (obs'.badAdd /\ ~obs.badAdd)
          => /\ obs'.addThrew
             /\ graceful' = graceful
     /\ Range(graceful'._checks) \cap NonFunctions = {}
     /\ graceful'._checks # graceful._checks
          => /\ Len(graceful'._checks) = Len(graceful._checks) + 1
             /\ SubSeq(graceful'._checks, 1, Len(graceful._checks))
                  = graceful._checks
     /\ (obs'.evals > obs.evals \/ obs'.lastEval # obs.lastEval)
          => /\ Len(obs'.lastEval) <= Len(graceful._checks)
             /\ \/ Len(obs'.lastEval) = Len(graceful._checks)
                \/ obs'.lastEval[Len(obs'.lastEval)] = "false"
    ]_vars

\* A non-function was refused, a function was added, and a later evaluation
\* called every check, the added one last.
C28_Witness ==
  /\ obs.badAdd
  /\ obs.addThrew
  /\ Len(graceful._checks) = 2
  /\ graceful._checks[2] = "flaky"
  /\ obs.evals >= 2
  /\ Len(obs.lastEval) = 2

\* C29: a step in which a worker disconnects or exits (the supervisor's
\* 'disconnect' listener included) makes no shutdown() call and leaves the
\* coordinator, its shuttingDown flag with it, as it was.
C29_NoEscalation ==
  [][(\E pid \in 1..Len(master.w) : master'.w[pid].st # master.w[pid].st)
       => /\ obs'.calls = obs.calls
          /\ obs'.flips = obs.flips
          /\ graceful' = graceful
    ]_vars

\* A worker of a registered supervisor has died and was replaced; the
\* coordinator is not shutting down.
C29_Witness ==
  /\ master.graceful
  /\ ~graceful.shuttingDown
  /\ obs.calls = 0
  /\ \E pid \in 1..Len(master.w) : master.w[pid].st = "dead"
  /\ \E pid \in 1..Len(master.w) : master.w[pid].via # "start"

(***************************************************************************)
(* The result of an evaluation                                             *)
(***************************************************************************)
\* C30 (as claimed): an evaluation returns true iff every check it called
\* returned a truthy value (the loop calls every registered check unless
\* one returns a falsy value).
C30_Original ==
  obs.evals >= 1
    => (obs.lastResult <=> \A i \in 1..Len(obs.lastEval) : obs.lastEval[i] = "true")

\* An evaluation returns true iff no check returned a falsy value: of the
\* checks of this evaluation alone, whatever earlier evaluations returned.
C30_NoFalsyReturn ==
  obs.evals >= 1
    => (obs.lastResult <=> \A i \in 1..Len(obs.lastEval) : obs.lastEval[i] # "false")

(***************************************************************************)
(* The end of the exit sequence                                            *)
(***************************************************************************)
\* C31: the final log is written once and process exit is scheduled once;
\* once that has happened the path taken (ready or forced) and the moment of
\* the decision stay as they are, the poll interval and the force timer are
\* cleared and stay cleared, and no evaluation of the checks follows.
C31_ExitOnce ==
  [][/\ obs'.finalLogs <= 1
     /\ graceful'.dieTimers <= 1
     /\ obs'.finalLogs >= 1
          => /\ graceful'.interval = Null
             /\ graceful'.timeout = Null
             /\ obs'.exitPath \in {"ready", "forced"}
     /\ obs.finalLogs >= 1
          => /\ obs'.exitPath = obs.exitPath
             /\ obs'.decidedAt = obs.decidedAt
             /\ obs'.lastEval = obs.lastEval
             /\ obs'.lastResult = obs.lastResult
             /\ graceful'.dieTimers <= graceful.dieTimers
    ]_vars

\* The force timer ended a shutdown whose checks had been polled, and the
\* process has exited.
C31_Witness ==
  /\ obs.exitPath = "forced"
  /\ obs.finalLogs = 1
  /\ obs.evals >= 2
  /\ ~obs.lastResult
  /\ node.exited

(***************************************************************************)
(* Sockets with several requests                                           *)
(***************************************************************************)
\* The requests on socket that have not completed.
InFlightOn(socket) ==
  {r \in 1..Len(node.res) : node.res[r].socket = socket /\ ~node.res[r].done}

\* A socket has one occurrence in _activeSockets for each request in flight
\* on it, and no step destroys a socket that still has one.
PerOccurrence ==
  \A socket \in Sockets :
     /\ Count(express'._activeSockets, socket) = Cardinality(InFlightOn(socket)')
     /\ socket \in node'.destroyed \ node.destroyed => InFlightOn(socket)' = {}

\* C32 (as claimed): whatever the mode of the drainer, a socket has as many
\* occurrences in _activeSockets as requests in flight, so the completion
\* of one of two requests removes one occurrence, and no sweep destroys the
\* socket before both have completed.
C32_Original == [][PerOccurrence]_vars

\* C32 (amended): outside in-process-test mode a socket has as many
\* occurrences in _activeSockets as requests in flight, so the completion
\* of one of two requests removes one occurrence, and no sweep destroys the
\* socket before both have completed.
C32_PerOccurrence == [][~express.inProcessTest => PerOccurrence]_vars

\* During the shutdown one of the two requests on a socket of the tracked
\* server has completed; the socket has one occurrence left and is open.
C32_Witness ==
  /\ express.server
  /\ ~express.inProcessTest
  /\ express.shuttingDown
  /\ \E socket \in node.conns \ node.destroyed :
       /\ Count(express._activeSockets, socket) = 1
       /\ \E r, q \in 1..Len(node.res) :
            /\ node.res[r].socket = socket /\ node.res[r].done
            /\ node.res[q].socket = socket /\ ~node.res[q].done

(***************************************************************************)
(* The socket reaper                                                       *)
(***************************************************************************)
\* The drainer is shutting down, the 'close' event of its server has not
\* fired, and socket is tracked, open, not yet told to close and without
\* an occurrence in _activeSockets.
IdleTracked(socket) ==
  /\ express.shuttingDown
  /\ express.server
  /\ ~express._serverClosed
  /\ socket \in Range(express._sockets)
  /\ InactiveTest(Bundle, socket)
  /\ socket \notin node.destroyed

\* C33: during the shutdown, before the server's 'close' event, a tracked
\* socket without a request in flight does not stay as it is: the initial
\* sweep or a reaper tick destroys it, unless it has closed or taken a new
\* request first.
C33_Reaped ==
  \A socket \in Sockets :
     IdleTracked(socket)
       ~> \/ socket \in node.destroyed
          \/ socket \notin Range(express._sockets)
          \/ ~InactiveTest(Bundle, socket)

\* A request that was in flight at the notification has completed, and its
\* socket, spared by the initial sweep, has been destroyed by the reaper.
C33_Witness ==
  /\ express.shuttingDown
  /\ express.server
  /\ ~express.inProcessTest
  /\ \E r \in 1..Len(node.res) :
       /\ node.res[r].outcome = "passed"
       /\ ~node.res[r].shouldKeepAlive
       /\ node.res[r].done
       /\ node.res[r].socket \in node.destroyed
       /\ node.res[r].socket \in Range(express._sockets)

(***************************************************************************)
(* The list of sockets                                                     *)
(***************************************************************************)
\* C34: _sockets holds no socket twice and the drainer has one 'close'
\* listener on each socket it holds and none on the others; _addSocket for
\* a socket that is in the list changes neither; and a socket that closes
\* is no longer in the list after the step.
C34_NoDuplicates ==
  [][\A socket \in Sockets :
       /\ Count(express'._sockets, socket) <= 1
       /\ node'.closeListeners[socket] = Count(express'._sockets, socket)
       /\ (socket \in node.conns /\ socket \notin node'.conns)
            => socket \notin Range(express'._sockets)
    ]_vars

\* _addSocket was called again for a connected socket: the list of a
\* tracked server holds one socket once, after another one has closed.
C34_Witness ==
  /\ obs.readded
  /\ express.server
  /\ Len(express._sockets) = 1
  /\ node.closeListeners[express._sockets[1]] = 1
  /\ \E r \in 1..Len(node.res) : node.res[r].socket \notin node.conns

(***************************************************************************)
(* Worker exits and stop()                                                 *)
(***************************************************************************)
\* The workers whose 'disconnect' the supervisor handles in this step.
Disconnecting ==
  {pid \in 1..Len(master.w) :
     master.w[pid].st = "live" /\ master'.w[pid].st # "live"}

\* C35: when the 'disconnect' of a worker is handled while shuttingDown is
\* set, the worker's record is removed, no worker is forked and no delayed
\* replacement is scheduled.
C35_NoReplacement ==
  [][(master.shuttingDown /\ Disconnecting # {})
       => /\ \A pid \in Disconnecting : ~master'.w[pid].tracked
          /\ master'.forks = master.forks
          /\ Len(master'.w) = Len(master.w)
          /\ master'.pending = master.pending
    ]_vars

\* After stop() a worker that had run for less than spinTimeout has exited
\* and nothing replaces it.
C35_Witness ==
  /\ master.shuttingDown
  /\ master.pending = <<>>
  /\ master.forks = master.numberWorkers
  /\ \E pid \in 1..Len(master.w) :
       /\ master.w[pid].st = "dead"
       /\ ~master.w[pid].tracked
  /\ \E k \in Stops : master.stops[k].age < master.spinTimeout

\* C36 (as claimed): once stop() has set shuttingDown no step forks a
\* worker.
C36_Original ==
  [][master.shuttingDown
       => /\ master'.forks = master.forks
          /\ Len(master'.w) = Len(master.w)
    ]_vars

\* Once stop() has set shuttingDown the only forks are those of the timers
\* of delayed replacements that were pending at the stop() call.
C36_DelayedOnly ==
  [][(master.shuttingDown /\ Len(master'.w) > Len(master.w))
       => /\ Len(master.pending) > 0
          /\ master.pending[1].left = 0
          /\ master'.pending = Tail(master.pending)
          /\ master'.w[Len(master'.w)].via = "delayed"
    ]_vars

(***************************************************************************)
(* shutdown() and the start of the exit sequence                           *)
(***************************************************************************)
\* C37 (as claimed): whenever shuttingDown is set the exit sequence is
\* under way, whatever the messenger and the listeners do.
C37_Original == graceful.shuttingDown => ExitPending

\* Whenever shuttingDown is set the exit sequence is under way, unless the
\* messenger threw; a listener that throws does not prevent it.
C37_UnlessMessengerThrows ==
  (graceful.shuttingDown /\ ~obs.sendThrew) => ExitPending

\* C38: once shuttingDown is set, no step (a later shutdown(err) from a
\* request domain included) changes the recorded error or calls the
\* messenger, and process.exit gets the code of the recorded error.
C38_FirstErrorOnly ==
  [][/\ graceful.shuttingDown
          => /\ graceful'.error = graceful.error
             /\ obs'.messengerCalls = obs.messengerCalls
     /\ (~node.exited /\ node'.exited)
          => node'.exitCode = ExitCodeOf(graceful'.error)]_vars

\* The process has exited with code 0 and the messenger was never called,
\* although a request domain called shutdown(err) after the first
\* shutdown() call, which had no error.
C38_Witness ==
  /\ node.exited
  /\ node.exitCode = 0
  /\ graceful.error = NoError
  /\ obs.messengerCalls = 0
  /\ obs.calls >= 2
  /\ \E r \in 1..Len(node.res) : node.res[r].outcome = "errored"

(***************************************************************************)
(* The number of workers                                                   *)
(***************************************************************************)
\* The keys of this._workers.
Tracked == {pid \in 1..Len(master.w) : master.w[pid].tracked}

\* C39: between start() and stop(), the workers of this._workers and the
\* pending timers of delayed replacements are numberWorkers together.
C39_WorkerCount ==
  (master.started /\ ~master.shuttingDown)
    => Cardinality(Tracked) + Len(master.pending) = master.numberWorkers

\* Before stop(), two workers have gone: one has been replaced at once and
\* the replacement of the other waits for its timer.
C39_Witness ==
  /\ master.started
  /\ ~master.shuttingDown
  /\ Len(master.pending) >= 1
  /\ \E pid \in Tracked : master.w[pid].via = "restart"
  /\ Cardinality({pid \in 1..Len(master.w) : master.w[pid].st # "live"}) >= 2

(***************************************************************************)
(* The force timeout of a coordinator with a supervisor                    *)
(***************************************************************************)
\* C40 (as claimed): the step that registers the supervisor leaves the
\* coordinator's force timeout as it was or raises it.
C40_Original ==
  [][(~master.graceful /\ master'.graceful)
       => graceful'.timeout.v >= graceful.timeout.v]_vars

\* The step that registers the supervisor sets the coordinator's force
\* timeout to killTimeout + 2 * pollInterval, whatever it was.
C40_Assigned ==
  [][(~master.graceful /\ master'.graceful)
       => graceful'.timeout = Ms(master.killTimeout + master.pollInterval * 2)
    ]_vars

====
